---- MODULE Spec2Model ----
(***************************************************************************)
(* Controller-mode driver of the RP2040 I2C peripheral                     *)
(* (rp2040-hal/src/i2c/controller.rs).                                     *)
(*                                                                         *)
(* The driver is modelled one register access (or one busy-wait poll) per  *)
(* step; the peripheral runs beside it: it takes commands from the TX      *)
(* FIFO, transfers or aborts, fills the RX FIFO and latches stop-detected. *)
(* `log` holds the register accesses of the call in flight, in order, as   *)
(* <<"r" or "w", register, value>>; a read of a status register is logged  *)
(* with the field it tests. The turns of a busy-wait that found the        *)
(* awaited flag inactive are not logged, only the access that ends it.     *)
(***************************************************************************)
EXTENDS Integers, Sequences, FiniteSets, TLC

\* Longest buffer / byte source handed to one operation.
MaxLen == 2
\* Longest operation list handed to transaction / transaction_iter.
MaxOps == 2

\* Byte values used as data (u8 values; two are enough to tell bytes apart).
Bytes == {0, 1}
\* 0x00 (reserved), 0x50 (valid), 0x80 (out of range).
Addresses == {0, 80, 128}
\* What the addressed device answers to a read command. The driver stores
\* the byte and never inspects it, so one value, different from the zeroes
\* the callers' buffers hold, stands for all.
RxBytes == {1}
\* Non-zero values of IC_TX_ABRT_SOURCE (7-bit address NACK, tx data NACK).
AbortReasons == {1, 8}

VARIABLES
    pc,                 \* position of the driver: "idle", a step label, "done"
    call_method,        \* the public method in flight (or last returned)
    call_address,       \* its address argument
    call_operations,    \* its buffers, as a list of [dir, buf]
    plan,               \* the internal calls its body makes, in order
    k,                  \* index into plan of the internal call in flight
    i,                  \* loop index i of write_internal / read_internal
    bufs,               \* bufs[n]: current contents of the buffer of plan[n]
    abort_reason,       \* write_internal's local abort_reason (Option<u32>)
    result,             \* the value the call returned
    log,                \* register accesses of the call, in order
    ic_enable,          \* IC_ENABLE.enable
    ic_tar,             \* IC_TAR.ic_tar
    ic_tx_abrt_source,  \* IC_TX_ABRT_SOURCE
    tx_fifo,            \* commands pushed and not yet taken by the peripheral
    rx_fifo,            \* bytes received and not yet popped
    stop_det,           \* IC_RAW_INTR_STAT.stop_det (latched)
    stop_pending,       \* the peripheral owes the bus a STOP condition
    ic_con,             \* IC_CON: the set of its fields that are set
    ic_tx_tl,           \* IC_TX_TL.tx_tl
    ic_rx_tl,           \* IC_RX_TL.rx_tl
    ic_fs_scl_hcnt,     \* IC_FS_SCL_HCNT
    ic_fs_scl_lcnt,     \* IC_FS_SCL_LCNT
    ic_fs_spklen,       \* IC_FS_SPKLEN
    ic_sda_tx_hold,     \* IC_SDA_HOLD.ic_sda_tx_hold
    cfg_freq,           \* new_controller's argument freq, in Hz
    cfg_system_clock,   \* new_controller's argument system_clock, in Hz
    validate_args,      \* <<address, opt_tx_empty, opt_rx_empty>> given to validate
    validate_result     \* what validate returned for them

driver == <<pc, call_method, call_address, call_operations, plan, k, i, bufs,
            abort_reason, result, log>>
hw == <<ic_enable, ic_tar, ic_tx_abrt_source, tx_fifo, rx_fifo, stop_det,
        stop_pending>>
\* Registers written by new_controller only, and its arguments.
timing == <<ic_con, ic_tx_tl, ic_rx_tl, ic_fs_scl_hcnt, ic_fs_scl_lcnt,
            ic_fs_spklen, ic_sda_tx_hold, cfg_freq, cfg_system_clock>>
\* What a transfer leaves alone.
aux == <<timing, validate_args, validate_result>>
vars == <<driver, hw, aux>>

----------------------------------------------------------------------------
\* Values

None == <<>>
Some(x) == <<x>>
is_some(o) == o # <<>>
unwrap_or(o, d) == IF o = <<>> THEN d ELSE o[1]

Ok == [kind |-> "Ok", val |-> 0]
Err(kind, val) == [kind |-> kind, val |-> val]
Pending == [kind |-> "Pending", val |-> 0]
Panic == [kind |-> "Panic", val |-> 0]

Bit(b) == IF b THEN 1 ELSE 0

\* IC_DATA_CMD: DAT bits 7:0, CMD bit 8 (1 = read), STOP bit 9, RESTART bit 10.
DataCmd(dat, cmd_read, stop, restart) ==
    dat + 256 * Bit(cmd_read) + 512 * Bit(stop) + 1024 * Bit(restart)
cmd_dat(v) == v % 256
cmd_is_read(v) == (v \div 256) % 2 = 1
cmd_stop(v) == (v \div 512) % 2 = 1
cmd_restart(v) == (v \div 1024) % 2 = 1

SeqsUpTo(S, n) == UNION {[1..m -> S] : m \in 0..n}
ZeroBuf(n) == [j \in 1..n |-> 0]
Payload(n) == [j \in 1..n |-> j % 2]

Read(buf) == [dir |-> "Read", buf |-> buf]
Write(buf) == [dir |-> "Write", buf |-> buf]

\* Inputs: byte slices, read buffers (zero-filled by the caller), operation lists.
ByteSlices == SeqsUpTo(Bytes, MaxLen)
Buffers == {ZeroBuf(n) : n \in 0..MaxLen}
Payloads == {Payload(n) : n \in 0..MaxLen}
Operation == {Read(b) : b \in Buffers} \cup {Write(b) : b \in Payloads}
OperationLists == SeqsUpTo(Operation, MaxOps)

----------------------------------------------------------------------------
\* Validation

\* (addr & 0x78) == 0 || (addr & 0x78) == 0x78
i2c_reserved_addr(addr) == ((addr \div 8) % 16) \in {0, 15}

\* Faulty variant of validate: the read-buffer test looks at opt_tx_empty.
validate_rx_unchecked(address, opt_tx_empty, opt_rx_empty) ==
    IF unwrap_or(opt_tx_empty, FALSE) THEN Err("InvalidWriteBufferLength", 0)
    ELSE IF unwrap_or(opt_tx_empty, FALSE) THEN Err("InvalidReadBufferLength", 0)
    ELSE IF address >= 128 THEN Err("AddressOutOfRange", address)
    ELSE IF i2c_reserved_addr(address) THEN Err("AddressReserved", address)
    ELSE Ok

\* Faulty variant of validate: the address is looked at before the buffers.
validate_address_first(address, opt_tx_empty, opt_rx_empty) ==
    IF address >= 128 THEN Err("AddressOutOfRange", address)
    ELSE IF i2c_reserved_addr(address) THEN Err("AddressReserved", address)
    ELSE IF unwrap_or(opt_tx_empty, FALSE) THEN Err("InvalidWriteBufferLength", 0)
    ELSE IF unwrap_or(opt_rx_empty, FALSE) THEN Err("InvalidReadBufferLength", 0)
    ELSE Ok

validate(address, opt_tx_empty, opt_rx_empty) ==
    IF unwrap_or(opt_tx_empty, FALSE) THEN Err("InvalidWriteBufferLength", 0)
    ELSE IF unwrap_or(opt_rx_empty, FALSE) THEN Err("InvalidReadBufferLength", 0)
    ELSE IF address >= 128 THEN Err("AddressOutOfRange", address)
    ELSE IF i2c_reserved_addr(address) THEN Err("AddressReserved", address)
    ELSE Ok

----------------------------------------------------------------------------
\* The bodies of the public methods: the internal calls each makes, in order.

write_internal_call(bytes, do_stop) ==
    [fn |-> "write_internal", bytes |-> bytes, force_restart |-> FALSE,
     do_stop |-> do_stop]
read_internal_call(buffer, force_restart, do_stop) ==
    [fn |-> "read_internal", bytes |-> buffer, force_restart |-> force_restart,
     do_stop |-> do_stop]

write_body(bytes) == << write_internal_call(bytes, TRUE) >>

read_body(buffer) == << read_internal_call(buffer, TRUE, TRUE) >>

\* Faulty variant of write_read: the write phase ends with a stop.
write_read_body_stop_after_write(tx, rx) ==
    << write_internal_call(tx, TRUE), read_internal_call(rx, TRUE, TRUE) >>

write_read_body(tx, rx) ==
    << write_internal_call(tx, FALSE), read_internal_call(rx, TRUE, TRUE) >>

\* Faulty variant of write_iter: the stop flag is `peek().is_some()`.
write_iter_body_stop_inverted(bytes) ==
    [j \in 1..Len(bytes) |-> write_internal_call(<<bytes[j]>>, j # Len(bytes))]

\* while let Some(tx) = peekable.next() { write_internal(&[tx], peek().is_none()) }
write_iter_body(bytes) ==
    [j \in 1..Len(bytes) |-> write_internal_call(<<bytes[j]>>, j = Len(bytes))]

write_iter_read_body(bytes, buffer) ==
    [j \in 1..Len(bytes) |-> write_internal_call(<<bytes[j]>>, FALSE)]
        \o << read_internal_call(buffer, TRUE, TRUE) >>

\* Faulty variant of transaction_iter: every read forces a restart.
transaction_iter_body_force_restart(ops) ==
    [j \in 1..Len(ops) |->
        LET last == (j = Len(ops)) IN
        IF ops[j].dir = "Read" THEN read_internal_call(ops[j].buf, TRUE, last)
        ELSE write_internal_call(ops[j].buf, last)]

transaction_iter_body(ops) ==
    [j \in 1..Len(ops) |->
        LET last == (j = Len(ops)) IN
        IF ops[j].dir = "Read" THEN read_internal_call(ops[j].buf, FALSE, last)
        ELSE write_internal_call(ops[j].buf, last)]

\* Faulty variant of transaction: every operation is told to stop.
transaction_body_stop_each(ops) ==
    [j \in 1..Len(ops) |->
        IF ops[j].dir = "Read" THEN read_internal_call(ops[j].buf, FALSE, TRUE)
        ELSE write_internal_call(ops[j].buf, TRUE)]

transaction_body(ops) ==
    [j \in 1..Len(ops) |->
        LET last == (j - 1 = Len(ops) - 1) IN
        IF ops[j].dir = "Read" THEN read_internal_call(ops[j].buf, FALSE, last)
        ELSE write_internal_call(ops[j].buf, last)]

----------------------------------------------------------------------------
\* Sequencing

\* Where control goes when internal call n of body p is reached: a `for` over
\* an empty slice does not iterate; read_internal first computes len - 1.
RECURSIVE Dispatch(_, _)
Dispatch(p, n) ==
    IF n > Len(p) THEN [pc |-> "return_ok", k |-> n]
    ELSE IF p[n].fn = "write_internal"
         THEN IF p[n].bytes = <<>> THEN Dispatch(p, n + 1)
              ELSE [pc |-> "write_push", k |-> n]
         ELSE IF p[n].bytes = <<>> THEN [pc |-> "read_lastindex", k |-> n]
              ELSE [pc |-> "read_push", k |-> n]

Goto(p, n) ==
    LET d == Dispatch(p, n) IN
    /\ pc' = IF d.pc = "return_ok" THEN "done" ELSE d.pc
    /\ k' = d.k
    /\ i' = 0
    /\ result' = IF d.pc = "return_ok" THEN Ok ELSE Pending

\* End of one iteration of the loop of write_internal / read_internal.
NextByte ==
    IF i + 1 < Len(plan[k].bytes)
    THEN /\ i' = i + 1
         /\ pc' = IF plan[k].fn = "write_internal" THEN "write_push" ELSE "read_push"
         /\ UNCHANGED <<k, result>>
    ELSE Goto(plan, k + 1)

Return(r) ==
    /\ pc' = "done"
    /\ result' = r
    /\ UNCHANGED <<k, i>>

----------------------------------------------------------------------------
\* Driver: entry of a public method

setup(address) ==
    /\ ic_enable' = 1
    /\ ic_tar' = address
    /\ log' = << <<"w", "ic_enable", 0>>, <<"w", "ic_tar", address>>,
                 <<"w", "ic_enable", 1>> >>

\* A public method: v is what its validation returned (Ok when it makes none),
\* p the internal calls its body goes on to make.
Call(m, address, ops, v, p) ==
    /\ pc = "idle"
    /\ call_method' = m
    /\ call_address' = address
    /\ call_operations' = ops
    /\ abort_reason' = None
    /\ UNCHANGED <<ic_tx_abrt_source, tx_fifo, rx_fifo, stop_det, stop_pending>>
    /\ UNCHANGED aux
    /\ IF v.kind # "Ok"
       THEN /\ pc' = "done"
            /\ result' = v
            /\ plan' = <<>>
            /\ bufs' = <<>>
            /\ k' = 0
            /\ i' = 0
            /\ log' = <<>>
            /\ UNCHANGED <<ic_enable, ic_tar>>
       ELSE /\ setup(address)
            /\ plan' = p
            /\ bufs' = [n \in 1..Len(p) |-> p[n].bytes]
            /\ Goto(p, 1)

\* The call has returned and the caller holds the peripheral again (&mut self
\* is released): nothing of the finished call is left but the register state.
Idle ==
    /\ pc = "done"
    /\ pc' = "idle"
    /\ call_method' = "none"
    /\ call_address' = 0
    /\ call_operations' = <<>>
    /\ plan' = <<>>
    /\ k' = 0
    /\ i' = 0
    /\ bufs' = <<>>
    /\ abort_reason' = None
    /\ result' = Pending
    /\ log' = <<>>
    /\ UNCHANGED hw
    /\ UNCHANGED aux

write(address, bytes) ==
    Call("write", address, <<Write(bytes)>>,
         validate(address, Some(bytes = <<>>), None), write_body(bytes))

read(address, buffer) ==
    Call("read", address, <<Read(buffer)>>,
         validate(address, None, Some(buffer = <<>>)), read_body(buffer))

write_read(addr, tx, rx) ==
    Call("write_read", addr, <<Write(tx), Read(rx)>>,
         validate(addr, Some(tx = <<>>), Some(rx = <<>>)), write_read_body(tx, rx))

write_iter(address, bytes) ==
    Call("write_iter", address, <<Write(bytes)>>,
         validate(address, Some(bytes = <<>>), None), write_iter_body(bytes))

write_iter_read(address, bytes, buffer) ==
    Call("write_iter_read", address, <<Write(bytes), Read(buffer)>>,
         validate(address, Some(bytes = <<>>), None),
         write_iter_read_body(bytes, buffer))

transaction_iter(address, ops) ==
    Call("transaction_iter", address, ops, Ok, transaction_iter_body(ops))

transaction(address, ops) ==
    Call("transaction", address, ops, Ok, transaction_body(ops))

----------------------------------------------------------------------------
\* Driver: write_internal

write_internal_push ==
    /\ pc = "write_push"
    /\ LET c == plan[k]
           last == (i = Len(c.bytes) - 1)
           v == DataCmd(c.bytes[i + 1], FALSE, c.do_stop /\ last, FALSE)
       IN /\ log' = Append(log, <<"w", "ic_data_cmd", v>>)
          /\ tx_fifo' = Append(tx_fifo, v)
    /\ pc' = "write_tx_empty"
    /\ UNCHANGED <<call_method, call_address, call_operations, plan, k, i, bufs,
                   abort_reason, result>>
    /\ UNCHANGED <<ic_enable, ic_tar, ic_tx_abrt_source, rx_fifo, stop_det,
                   stop_pending>>
    /\ UNCHANGED aux

\* while ic_raw_intr_stat.tx_empty().is_inactive() {}  -- one more turn
write_internal_tx_empty_wait ==
    /\ pc = "write_tx_empty"
    /\ tx_fifo # <<>>
    /\ UNCHANGED vars

write_internal_tx_empty ==
    /\ pc = "write_tx_empty"
    /\ tx_fifo = <<>>
    /\ log' = Append(log, <<"r", "ic_raw_intr_stat", 16>>)  \* TX_EMPTY, bit 4
    /\ pc' = "write_abort_reason"
    /\ UNCHANGED <<call_method, call_address, call_operations, plan, k, i, bufs,
                   abort_reason, result>>
    /\ UNCHANGED hw
    /\ UNCHANGED aux

\* Faulty variant of write_internal_abort_reason: a captured abort is
\* returned at once; only the stop flag makes the loop wait for stop_det.
write_internal_abort_reason_no_stop_wait ==
    /\ pc = "write_abort_reason"
    /\ LET c == plan[k]
           last == (i = Len(c.bytes) - 1)
           r == ic_tx_abrt_source
           got == IF r # 0 THEN Some(r) ELSE None
       IN /\ abort_reason' = got
          /\ log' = IF r # 0
                    THEN log \o << <<"r", "ic_tx_abrt_source", r>>,
                                   <<"r", "ic_clr_tx_abrt", 0>> >>
                    ELSE Append(log, <<"r", "ic_tx_abrt_source", 0>>)
          /\ ic_tx_abrt_source' = 0
          /\ IF c.do_stop /\ last
             THEN pc' = "write_stop_det" /\ UNCHANGED <<k, i, result>>
             ELSE IF is_some(got) THEN Return(Err("Abort", r)) ELSE NextByte
    /\ UNCHANGED <<call_method, call_address, call_operations, plan, bufs>>
    /\ UNCHANGED <<ic_enable, ic_tar, tx_fifo, rx_fifo, stop_det, stop_pending>>
    /\ UNCHANGED aux

\* let abort_reason = self.read_and_clear_abort_reason();
\* if abort_reason.is_some() || (do_stop && last) { wait for stop_det } ...
write_internal_abort_reason ==
    /\ pc = "write_abort_reason"
    /\ LET c == plan[k]
           last == (i = Len(c.bytes) - 1)
           r == ic_tx_abrt_source
           got == IF r # 0 THEN Some(r) ELSE None
       IN /\ abort_reason' = got
          /\ log' = IF r # 0
                    THEN log \o << <<"r", "ic_tx_abrt_source", r>>,
                                   <<"r", "ic_clr_tx_abrt", 0>> >>
                    ELSE Append(log, <<"r", "ic_tx_abrt_source", 0>>)
          /\ ic_tx_abrt_source' = 0
          /\ IF is_some(got) \/ (c.do_stop /\ last)
             THEN pc' = "write_stop_det" /\ UNCHANGED <<k, i, result>>
             ELSE NextByte
    /\ UNCHANGED <<call_method, call_address, call_operations, plan, bufs>>
    /\ UNCHANGED <<ic_enable, ic_tar, tx_fifo, rx_fifo, stop_det, stop_pending>>
    /\ UNCHANGED aux

\* while ic_raw_intr_stat.stop_det().is_inactive() {}  -- one more turn
write_internal_stop_det_wait ==
    /\ pc = "write_stop_det"
    /\ ~stop_det
    /\ UNCHANGED vars

\* Faulty variant of write_internal_stop_det: the captured abort is dropped
\* and the loop goes on.
write_internal_stop_det_no_return ==
    /\ pc = "write_stop_det"
    /\ stop_det
    /\ log' = log \o << <<"r", "ic_raw_intr_stat", 512>>,
                        <<"r", "ic_clr_stop_det", 0>> >>
    /\ stop_det' = FALSE
    /\ NextByte
    /\ UNCHANGED <<call_method, call_address, call_operations, plan, bufs,
                   abort_reason>>
    /\ UNCHANGED <<ic_enable, ic_tar, ic_tx_abrt_source, tx_fifo, rx_fifo,
                   stop_pending>>
    /\ UNCHANGED aux

\* stop_det seen; ic_clr_stop_det.read(); then return the abort or go on.
write_internal_stop_det ==
    /\ pc = "write_stop_det"
    /\ stop_det
    /\ log' = log \o << <<"r", "ic_raw_intr_stat", 512>>,  \* STOP_DET, bit 9
                        <<"r", "ic_clr_stop_det", 0>> >>
    /\ stop_det' = FALSE
    /\ IF is_some(abort_reason)
       THEN Return(Err("Abort", abort_reason[1]))
       ELSE NextByte
    /\ UNCHANGED <<call_method, call_address, call_operations, plan, bufs,
                   abort_reason>>
    /\ UNCHANGED <<ic_enable, ic_tar, ic_tx_abrt_source, tx_fifo, rx_fifo,
                   stop_pending>>
    /\ UNCHANGED aux

----------------------------------------------------------------------------
\* Driver: read_internal

\* let lastindex = buffer.len() - 1 with an empty buffer: the subtraction
\* overflows; a build with overflow checks panics here ...
read_internal_lastindex_panic ==
    /\ pc = "read_lastindex"
    /\ Return(Panic)
    /\ UNCHANGED <<call_method, call_address, call_operations, plan, bufs,
                   abort_reason, log>>
    /\ UNCHANGED hw
    /\ UNCHANGED aux

\* ... one without wraps to usize::MAX, and the loop over the empty buffer
\* does not iterate: read_internal returns Ok(()).
read_internal_lastindex_wrap ==
    /\ pc = "read_lastindex"
    /\ Goto(plan, k + 1)
    /\ UNCHANGED <<call_method, call_address, call_operations, plan, bufs,
                   abort_reason, log>>
    /\ UNCHANGED hw
    /\ UNCHANGED aux

\* The TX FIFO of the block is 16 entries deep.
tx_fifo_full == Len(tx_fifo) >= 16

\* while self.tx_fifo_full() {}; ic_data_cmd.write(restart, stop, cmd = read)
read_internal_push ==
    /\ pc = "read_push"
    /\ ~tx_fifo_full
    /\ LET c == plan[k]
           lastindex == Len(c.bytes) - 1
           first == (i = 0)
           last == (i = lastindex)
           v == DataCmd(0, TRUE, c.do_stop /\ last, c.force_restart /\ first)
       IN /\ log' = log \o << <<"r", "ic_status", 2>>, <<"w", "ic_data_cmd", v>> >>
          /\ tx_fifo' = Append(tx_fifo, v)
    /\ pc' = "read_rxflr"
    /\ UNCHANGED <<call_method, call_address, call_operations, plan, k, i, bufs,
                   abort_reason, result>>
    /\ UNCHANGED <<ic_enable, ic_tar, ic_tx_abrt_source, rx_fifo, stop_det,
                   stop_pending>>
    /\ UNCHANGED aux

\* while ic_rxflr == 0 { read_and_clear_abort_reason() is None }  -- one more turn
read_internal_rxflr_wait ==
    /\ pc = "read_rxflr"
    /\ rx_fifo = <<>>
    /\ ic_tx_abrt_source = 0
    /\ UNCHANGED vars

\* Faulty variant of read_internal_abort: the data register is read into the
\* slot before the abort is returned (the empty FIFO yields some byte).
read_internal_abort_after_pop ==
    /\ pc = "read_rxflr"
    /\ rx_fifo = <<>>
    /\ ic_tx_abrt_source # 0
    /\ \E b \in Bytes :
         /\ log' = log \o << <<"r", "ic_rxflr", 0>>,
                             <<"r", "ic_tx_abrt_source", ic_tx_abrt_source>>,
                             <<"r", "ic_clr_tx_abrt", 0>>,
                             <<"r", "ic_data_cmd", b>> >>
         /\ bufs' = [bufs EXCEPT ![k][i + 1] = b]
    /\ ic_tx_abrt_source' = 0
    /\ Return(Err("Abort", ic_tx_abrt_source))
    /\ UNCHANGED <<call_method, call_address, call_operations, plan, abort_reason>>
    /\ UNCHANGED <<ic_enable, ic_tar, tx_fifo, rx_fifo, stop_det, stop_pending>>
    /\ UNCHANGED aux

\* Faulty variant of read_internal_abort: the reason is read and cleared,
\* and the loop goes on polling ic_rxflr.
read_internal_abort_ignored ==
    /\ pc = "read_rxflr"
    /\ rx_fifo = <<>>
    /\ ic_tx_abrt_source # 0
    /\ log' = log \o << <<"r", "ic_rxflr", 0>>,
                        <<"r", "ic_tx_abrt_source", ic_tx_abrt_source>>,
                        <<"r", "ic_clr_tx_abrt", 0>> >>
    /\ ic_tx_abrt_source' = 0
    /\ UNCHANGED <<pc, k, i, result>>
    /\ UNCHANGED <<call_method, call_address, call_operations, plan, bufs,
                   abort_reason>>
    /\ UNCHANGED <<ic_enable, ic_tar, tx_fifo, rx_fifo, stop_det, stop_pending>>
    /\ UNCHANGED aux

\* Faulty variant of read_internal_abort: the reason is read and returned,
\* ic_clr_tx_abrt is not read.
read_internal_abort_no_clear ==
    /\ pc = "read_rxflr"
    /\ rx_fifo = <<>>
    /\ ic_tx_abrt_source # 0
    /\ log' = log \o << <<"r", "ic_rxflr", 0>>,
                        <<"r", "ic_tx_abrt_source", ic_tx_abrt_source>> >>
    /\ ic_tx_abrt_source' = 0
    /\ Return(Err("Abort", ic_tx_abrt_source))
    /\ UNCHANGED <<call_method, call_address, call_operations, plan, bufs,
                   abort_reason>>
    /\ UNCHANGED <<ic_enable, ic_tar, tx_fifo, rx_fifo, stop_det, stop_pending>>
    /\ UNCHANGED aux

\* while ic_rxflr == 0 { if let Some(abort_reason) = ... { return Err(Abort) } }
read_internal_abort ==
    /\ pc = "read_rxflr"
    /\ rx_fifo = <<>>
    /\ ic_tx_abrt_source # 0
    /\ log' = log \o << <<"r", "ic_rxflr", 0>>,
                        <<"r", "ic_tx_abrt_source", ic_tx_abrt_source>>,
                        <<"r", "ic_clr_tx_abrt", 0>> >>
    /\ ic_tx_abrt_source' = 0
    /\ Return(Err("Abort", ic_tx_abrt_source))
    /\ UNCHANGED <<call_method, call_address, call_operations, plan, bufs,
                   abort_reason>>
    /\ UNCHANGED <<ic_enable, ic_tar, tx_fifo, rx_fifo, stop_det, stop_pending>>
    /\ UNCHANGED aux

\* ic_rxflr != 0: *byte = ic_data_cmd.read().dat()
read_internal_pop ==
    /\ pc = "read_rxflr"
    /\ rx_fifo # <<>>
    /\ log' = log \o << <<"r", "ic_rxflr", Len(rx_fifo)>>,
                        <<"r", "ic_data_cmd", Head(rx_fifo)>> >>
    /\ bufs' = [bufs EXCEPT ![k][i + 1] = Head(rx_fifo)]
    /\ rx_fifo' = Tail(rx_fifo)
    /\ NextByte
    /\ UNCHANGED <<call_method, call_address, call_operations, plan, abort_reason>>
    /\ UNCHANGED <<ic_enable, ic_tar, ic_tx_abrt_source, tx_fifo, stop_det,
                   stop_pending>>
    /\ UNCHANGED aux

----------------------------------------------------------------------------
\* Peripheral

\* The head command is carried out on the bus: a write byte is sent and
\* acknowledged, a read byte is received; a command with STOP set is followed
\* by a STOP condition.
HwTransfer ==
    /\ ic_enable = 1
    /\ tx_fifo # <<>>
    /\ ~stop_pending
    /\ ic_tx_abrt_source = 0
    /\ LET c == Head(tx_fifo) IN
       /\ tx_fifo' = Tail(tx_fifo)
       /\ IF cmd_is_read(c)
          THEN \E b \in RxBytes : rx_fifo' = Append(rx_fifo, b)
          ELSE UNCHANGED rx_fifo
       /\ stop_pending' = cmd_stop(c)
    /\ UNCHANGED driver
    /\ UNCHANGED <<ic_enable, ic_tar, ic_tx_abrt_source, stop_det>>
    /\ UNCHANGED aux

\* The transfer aborts: the reason is latched, both FIFOs are flushed and the
\* peripheral issues a STOP by itself.
HwAbort ==
    /\ ic_enable = 1
    /\ tx_fifo # <<>>
    /\ ~stop_pending
    /\ ic_tx_abrt_source = 0
    /\ \E r \in AbortReasons : ic_tx_abrt_source' = r
    /\ tx_fifo' = <<>>
    /\ rx_fifo' = <<>>
    /\ stop_pending' = TRUE
    /\ UNCHANGED driver
    /\ UNCHANGED <<ic_enable, ic_tar, stop_det>>
    /\ UNCHANGED aux

\* The STOP condition occurs on the bus; stop_det latches.
HwStop ==
    /\ stop_pending
    /\ stop_pending' = FALSE
    /\ stop_det' = TRUE
    /\ UNCHANGED driver
    /\ UNCHANGED <<ic_enable, ic_tar, ic_tx_abrt_source, tx_fifo, rx_fifo>>
    /\ UNCHANGED aux

----------------------------------------------------------------------------
\* new_controller: timing arithmetic (u32)

\* x * 3 exceeds u32::MAX when x > (2^32 - 1) / 3.
mul3_overflows(x) == x > 1431655765

\* (x * 3) / d in u32 arithmetic, for x < 2^31. The product itself can
\* take 32 bits, more than an integer of TLC holds, so the quotient
\* is formed without it: 3 * (x / d) + 3 * (x % d) / d when the product
\* fits in a u32, and (3x - 2^32) / d when it wraps.
wrapping_mul3_div(x, d) ==
    IF mul3_overflows(x)
    THEN (x + 2 * (x - 2147483647 - 1)) \div d
    ELSE 3 * (x \div d) + (3 * (x % d)) \div d

\* a + b exceeds u32::MAX (a - 2^31 > 2^31 - 1 - b).
add_overflows(a, b) == (a - 2147483647) - 1 > 2147483647 - b

\* let period = (freq_in + freq / 2) / freq;
period(freq_in, freq) == (freq_in + freq \div 2) \div freq

\* let lcnt = period * 3 / 5;
lcnt(p) == wrapping_mul3_div(p, 5)

\* Faulty variant of hcnt: two fifths of the period, rounded down by itself.
hcnt_two_fifths(p, l) == (p \div 5) * 2

\* let hcnt = period - lcnt;
hcnt(p, l) == p - l

\* The four assertions on the divisors.
divisors_in_range(h, l) == h <= 65535 /\ l <= 65535 /\ h >= 8 /\ l >= 8

\* let sda_tx_hold_count = if freq < 1000000 { .. } else { .. };
sda_tx_hold_count(freq_in, freq) ==
    IF freq < 1000000
    THEN wrapping_mul3_div(freq_in, 10000000) + 1
    ELSE wrapping_mul3_div(freq_in, 25000000) + 1

\* bits(if lcnt < 16 { 1 } else { (lcnt / 16) as u8 })
spklen(l) == IF l < 16 THEN 1 ELSE (l \div 16) % 256

\* ic_con.modify: speed = fast (2 at bits 2:1), master_mode (bit 0),
\* 7-bit addressing (bits 3 and 4 clear), ic_slave_disable (bit 6),
\* ic_restart_en (bit 5), tx_empty_ctrl (bit 8); bits 7 and 9 are kept.
ic_con_modify(old) ==
    1 + 2 * 2 + 32 + 64 + 256
      + 128 * ((old \div 128) % 2) + 512 * ((old \div 512) % 2)

\* What the run of new_controller comes to: "freq" when an assertion on freq
\* fails (before any register access), "panic" when a later assertion or a
\* checked multiplication fails (the block is left disabled and half
\* configured), "ok" when it returns the controller.
new_controller_outcome(freq, system_clock, overflow_checks) ==
    IF ~(freq <= 1000000 /\ freq > 0) THEN "freq"
    ELSE LET freq_in == system_clock
             p == period(freq_in, freq)
             l == lcnt(p)
             h == hcnt(p, l)
         IN IF \/ overflow_checks /\ add_overflows(freq_in, freq \div 2)
               \/ overflow_checks /\ mul3_overflows(p)
               \/ ~divisors_in_range(h, l)
               \/ freq >= 1000000 /\ ~(freq_in >= 32000000)
               \/ overflow_checks /\ mul3_overflows(freq_in)
               \/ ~(sda_tx_hold_count(freq_in, freq) <= l - 2)
            THEN "panic"
            ELSE "ok"

\* The register accesses up to the first assertion on the divisors.
new_controller_head ==
    << <<"w", "ic_enable", 0>>,
       <<"r", "ic_con", ic_con>>,
       <<"w", "ic_con", ic_con_modify(ic_con)>>,
       <<"w", "ic_tx_tl", 0>>,
       <<"w", "ic_rx_tl", 0>> >>

\* Faulty variant of new_controller_tail: the block is enabled before the
\* timing registers are written.
new_controller_tail_enable_first(h, l, hold) ==
    << <<"w", "ic_enable", 1>>,
       <<"w", "ic_fs_scl_hcnt", h % 65536>>,
       <<"w", "ic_fs_scl_lcnt", l % 65536>>,
       <<"w", "ic_fs_spklen", spklen(l)>>,
       <<"r", "ic_sda_hold", ic_sda_tx_hold>>,
       <<"w", "ic_sda_hold", hold % 65536>> >>

\* The register accesses after the last assertion.
new_controller_tail(h, l, hold) ==
    << <<"w", "ic_fs_scl_hcnt", h % 65536>>,
       <<"w", "ic_fs_scl_lcnt", l % 65536>>,
       <<"w", "ic_fs_spklen", spklen(l)>>,
       <<"r", "ic_sda_hold", ic_sda_tx_hold>>,
       <<"w", "ic_sda_hold", hold % 65536>>,
       <<"w", "ic_enable", 1>> >>

\* new_controller(i2c, sda_pin, scl_pin, freq, resets, system_clock), run
\* on the block as the reset leaves it. overflow_checks tells the build:
\* with them an overflowing multiplication panics, without them it wraps.
new_controller(freq, system_clock, overflow_checks) ==
    /\ pc = "reset"
    /\ call_method' = "new_controller"
    /\ cfg_freq' = freq
    /\ cfg_system_clock' = system_clock
    /\ LET o == new_controller_outcome(freq, system_clock, overflow_checks)
           p == period(system_clock, freq)
           l == lcnt(p)
           h == hcnt(p, l)
           hold == sda_tx_hold_count(system_clock, freq)
       IN /\ pc' = IF o = "ok" THEN "done" ELSE "panicked"
          /\ result' = IF o = "ok" THEN Ok ELSE Panic
          /\ log' = IF o = "freq" THEN <<>>
                    ELSE IF o = "panic" THEN new_controller_head
                    ELSE new_controller_head \o new_controller_tail(h, l, hold)
          /\ IF o = "freq"
             THEN UNCHANGED <<ic_enable, ic_con, ic_tx_tl, ic_rx_tl>>
             ELSE /\ ic_enable' = IF o = "ok" THEN 1 ELSE 0
                  /\ ic_con' = ic_con_modify(ic_con)
                  /\ ic_tx_tl' = 0
                  /\ ic_rx_tl' = 0
          /\ IF o = "ok"
             THEN /\ ic_fs_scl_hcnt' = h % 65536
                  /\ ic_fs_scl_lcnt' = l % 65536
                  /\ ic_fs_spklen' = spklen(l)
                  /\ ic_sda_tx_hold' = hold % 65536
             ELSE UNCHANGED <<ic_fs_scl_hcnt, ic_fs_scl_lcnt, ic_fs_spklen,
                              ic_sda_tx_hold>>
    /\ UNCHANGED <<call_address, call_operations, plan, k, i, bufs, abort_reason>>
    /\ UNCHANGED <<ic_tar, ic_tx_abrt_source, tx_fifo, rx_fifo, stop_det,
                   stop_pending>>
    /\ UNCHANGED <<validate_args, validate_result>>

----------------------------------------------------------------------------
\* Specification

\* The state new_controller(400 kHz, 125 MHz) leaves: enabled, IC_TAR at its
\* reset value 0x055, the timing registers programmed.
Constructed ==
    /\ pc = "idle"
    /\ call_method = "none"
    /\ call_address = 0
    /\ call_operations = <<>>
    /\ plan = <<>>
    /\ k = 0
    /\ i = 0
    /\ bufs = <<>>
    /\ abort_reason = None
    /\ result = Pending
    /\ log = <<>>
    /\ ic_enable = 1
    /\ ic_tar = 85
    /\ ic_tx_abrt_source = 0
    /\ tx_fifo = <<>>
    /\ rx_fifo = <<>>
    /\ stop_det = FALSE
    /\ stop_pending = FALSE
    /\ LET p == period(125000000, 400000)
           l == lcnt(p)
       IN /\ ic_fs_scl_hcnt = hcnt(p, l)
          /\ ic_fs_scl_lcnt = l
          /\ ic_fs_spklen = spklen(l)
          /\ ic_sda_tx_hold = sda_tx_hold_count(125000000, 400000)
    /\ ic_con = ic_con_modify(101)
    /\ ic_tx_tl = 0
    /\ ic_rx_tl = 0
    /\ cfg_freq = 400000
    /\ cfg_system_clock = 125000000

Init ==
    /\ Constructed
    /\ validate_args = <<0, None, None>>
    /\ validate_result = Pending

\* A public method is entered only while no call is in flight (&mut self).
Enter ==
    /\ pc = "idle"
    /\ \/ \E a \in Addresses, b \in ByteSlices : write(a, b)
       \/ \E a \in Addresses, b \in Buffers : read(a, b)
       \/ \E a \in Addresses, t \in Payloads, r \in Buffers : write_read(a, t, r)
       \/ \E a \in Addresses, b \in ByteSlices : write_iter(a, b)
       \/ \E a \in Addresses, t \in Payloads, r \in Buffers : write_iter_read(a, t, r)
       \/ \E a \in Addresses, o \in OperationLists : transaction_iter(a, o)
       \/ \E a \in Addresses, o \in OperationLists : transaction(a, o)

Next ==
    \/ Enter
    \/ Idle
    \/ write_internal_push
    \/ write_internal_tx_empty_wait
    \/ write_internal_tx_empty
    \/ write_internal_abort_reason
    \/ write_internal_stop_det_wait
    \/ write_internal_stop_det
    \/ read_internal_lastindex_panic
    \/ read_internal_lastindex_wrap
    \/ read_internal_push
    \/ read_internal_rxflr_wait
    \/ read_internal_abort
    \/ read_internal_pop
    \/ HwTransfer
    \/ HwAbort
    \/ HwStop

Spec == Init /\ [][Next]_vars

\* The steps the running driver takes by itself: every step but the start
\* of a call and the turns of a busy-wait that found its flag inactive.
DriverStep ==
    \/ write_internal_push
    \/ write_internal_tx_empty
    \/ write_internal_abort_reason
    \/ write_internal_stop_det
    \/ read_internal_lastindex_panic
    \/ read_internal_lastindex_wrap
    \/ read_internal_push
    \/ read_internal_abort
    \/ read_internal_pop

\* The driver runs (it is the only code on its core that touches the block,
\* and its loops have no yield point), and the peripheral makes progress:
\* it deals with the command at the head of the FIFO, by a transfer or an
\* abort, and it puts the STOP it owes on the bus.
FairSpec ==
    /\ Spec
    /\ WF_vars(DriverStep)
    /\ WF_vars(HwTransfer \/ HwAbort)
    /\ WF_vars(HwStop)

----------------------------------------------------------------------------
\* Construction

\* Bus frequencies handed to new_controller: the ends of the accepted range
\* 1..=1_000_000, one value on each side of it, the standard rates,
\* 999_999 / 1_000_000 on the two sides of the hold-time branch, and rates
\* that give a low count under 16 (600 kHz at 12 MHz) and over 4095 (10 kHz
\* at 125 MHz).
BusFreqs == {0, 1, 1000, 10000, 100000, 400000, 600000, 999999, 1000000,
             1000001}

\* System clocks handed to new_controller: clocks too slow for any rate, the
\* clocks of the RP2040 (12 MHz crystal, 48 MHz USB, 125 and 133 MHz), the
\* two sides of the 32 MHz fast-mode-plus limit, and clocks on the two sides
\* of (2^32 - 1) / 3, where freq_in * 3 leaves 32 bits. Clocks of 2^31 Hz
\* and above are not represented.
SysClocks == {0, 1000000, 12000000, 31999999, 32000000, 48000000, 100000000,
              125000000, 133000000, 200000000, 1431655765, 1431655766,
              2000000000}

\* Configurations a driver is then used with: fast mode, fast mode plus,
\* and one the assertions on the divisors refuse.
ConfigInputs == {<<400000, 125000000>>, <<1000000, 125000000>>,
                 <<100000, 1000000>>}

\* The block as reset_bring_down / reset_bring_up leave it: disabled, every
\* register at its reset value, no controller built yet.
InitReset ==
    /\ pc = "reset"
    /\ call_method = "none"
    /\ call_address = 0
    /\ call_operations = <<>>
    /\ plan = <<>>
    /\ k = 0
    /\ i = 0
    /\ bufs = <<>>
    /\ abort_reason = None
    /\ result = Pending
    /\ log = <<>>
    /\ ic_enable = 0
    /\ ic_tar = 85
    /\ ic_tx_abrt_source = 0
    /\ tx_fifo = <<>>
    /\ rx_fifo = <<>>
    /\ stop_det = FALSE
    /\ stop_pending = FALSE
    /\ ic_con = 101
    /\ ic_tx_tl = 0
    /\ ic_rx_tl = 0
    /\ ic_fs_scl_hcnt = 6
    /\ ic_fs_scl_lcnt = 13
    /\ ic_fs_spklen = 7
    /\ ic_sda_tx_hold = 1
    /\ cfg_freq = 0
    /\ cfg_system_clock = 0
    /\ validate_args = <<0, None, None>>
    /\ validate_result = Pending

\* new_controller on every pair of the two sets, in either build.
Construct ==
    \E f \in BusFreqs, s \in SysClocks, oc \in BOOLEAN : new_controller(f, s, oc)

SpecTiming == InitReset /\ [][Construct]_vars

\* new_controller on one of the configurations in use.
ConstructForUse ==
    \E c \in ConfigInputs, oc \in BOOLEAN : new_controller(c[1], c[2], oc)

NextFromReset ==
    \/ ConstructForUse
    \/ Next

\* The driver from reset on: construction, then transfers.
SpecFromReset == InitReset /\ [][NextFromReset]_vars

----------------------------------------------------------------------------
\* validate on its own

\* address is a u8; each of the two options is None, Some(false), Some(true).
OptBool == {None, Some(FALSE), Some(TRUE)}
ValidateInputs == (0..255) \X OptBool \X OptBool

InitValidate ==
    /\ Constructed
    /\ validate_args \in ValidateInputs
    /\ validate_result = Pending

ApplyValidate ==
    /\ validate_result = Pending
    /\ validate_result' = validate(validate_args[1], validate_args[2],
                                   validate_args[3])
    /\ UNCHANGED <<driver, hw, timing, validate_args>>

SpecValidate == InitValidate /\ [][ApplyValidate]_vars

----------------------------------------------------------------------------
\* Observations on the call in flight

IsPush(e) == e[1] = "w" /\ e[2] = "ic_data_cmd"
IsPop(e) == e[1] = "r" /\ e[2] = "ic_data_cmd"
IsAbortRead(e) == e[1] = "r" /\ e[2] = "ic_tx_abrt_source" /\ e[3] # 0

\* The commands pushed to the FIFO by the call so far, in order.
Cmds == LET s == SelectSeq(log, IsPush) IN [j \in 1..Len(s) |-> s[j][3]]
Pops == SelectSeq(log, IsPop)

\* Number of bytes in the buffers of operations 1..n.
RECURSIVE BytesUpTo(_, _)
BytesUpTo(ops, n) == IF n = 0 THEN 0 ELSE BytesUpTo(ops, n - 1) + Len(ops[n].buf)

TransactionMethods == {"transaction", "transaction_iter"}
ValidationErrors == {"InvalidWriteBufferLength", "InvalidReadBufferLength",
                     "AddressOutOfRange", "AddressReserved"}

AddressInvalid == call_address >= 128 \/ i2c_reserved_addr(call_address)
SomeBufferEmpty == \E n \in 1..Len(call_operations) : call_operations[n].buf = <<>>
ArgsInvalid == AddressInvalid \/ SomeBufferEmpty

\* The peripheral (IC_RESTART_EN set) issues a repeated START before command
\* j when the RESTART bit is set or the direction changes, the bus being held.
HwRepeatedStart(c, j) ==
    /\ j > 1
    /\ ~cmd_stop(c[j - 1])
    /\ (cmd_restart(c[j]) \/ cmd_is_read(c[j]) # cmd_is_read(c[j - 1]))

----------------------------------------------------------------------------
\* Properties

\* C1: transaction and transaction_iter called with an address >= 0x80 or
\* reserved, or with an operation whose buffer is empty, fail with a
\* validation Error and make no register access at all.
C1_TransactionValidatesBeforeHardware ==
    (call_method \in TransactionMethods /\ ArgsInvalid)
        => /\ log = <<>>
           /\ pc = "done" => result.kind \in ValidationErrors

\* C2: when the arguments of write, read, write_read or write_iter are invalid
\* (empty write buffer or source, empty read buffer, address >= 0x80, reserved
\* address) the call returns a validation Error in one step that leaves every
\* register unchanged and makes no register access.
C2_ValidationFailureTouchesNothing ==
    [][ ( /\ pc = "idle"
          /\ pc' # "idle"
          /\ call_method' \in {"write", "read", "write_read", "write_iter"}
          /\ ArgsInvalid' )
        => ( /\ pc' = "done"
             /\ result'.kind \in ValidationErrors
             /\ log' = <<>>
             /\ UNCHANGED hw ) ]_vars

C2_Witness ==
    /\ pc = "done"
    /\ call_method = "write_read"
    /\ call_address = 80
    /\ call_operations[1].buf # <<>>
    /\ call_operations[2].buf = <<>>
    /\ result.kind = "InvalidReadBufferLength"

\* C3: in every public operation a FIFO command carries the stop flag only
\* if it is the last byte of the last operation of the call.
IsLastByteOfCall(j) ==
    LET n == Len(call_operations) IN
    /\ n > 0
    /\ call_operations[n].buf # <<>>
    /\ j = BytesUpTo(call_operations, n)

C3_StopOnlyOnLastByteOfCall ==
    \A j \in 1..Len(Cmds) : cmd_stop(Cmds[j]) => IsLastByteOfCall(j)

C3_Witness ==
    /\ pc = "done"
    /\ call_method = "transaction"
    /\ result = Ok
    /\ Len(call_operations) = 2
    /\ Len(Cmds) = 4
    /\ cmd_stop(Cmds[4])

\* C4: a transaction / transaction_iter call that returned Ok(()) has pushed
\* a command with the stop flag as its final command. Stated for the calls
\* with a legal address that pushed a command, the ones that hold the bus.
C4_TransactionOkEndsWithStop ==
    ( /\ call_method \in TransactionMethods
      /\ pc = "done"
      /\ result = Ok
      /\ ~AddressInvalid
      /\ Cmds # <<>> )
        => cmd_stop(Cmds[Len(Cmds)])

\* C5: write_read with a valid address, non-empty tx and rx and no abort
\* returns Ok having pushed len(tx) write commands carrying tx in order, none
\* with stop or restart, then len(rx) read commands of which exactly the
\* first has restart and exactly the last has stop.
C5_WriteReadFraming ==
    ( /\ call_method = "write_read"
      /\ pc = "done"
      /\ ~ArgsInvalid
      /\ result.kind # "Abort" )
        => LET tx == call_operations[1].buf
               rx == call_operations[2].buf
               c == Cmds
           IN /\ result = Ok
              /\ Len(c) = Len(tx) + Len(rx)
              /\ \A j \in 1..Len(tx) :
                    /\ ~cmd_is_read(c[j])
                    /\ cmd_dat(c[j]) = tx[j]
                    /\ ~cmd_stop(c[j])
                    /\ ~cmd_restart(c[j])
              /\ \A j \in 1..Len(rx) :
                    /\ cmd_is_read(c[Len(tx) + j])
                    /\ cmd_restart(c[Len(tx) + j]) <=> (j = 1)
                    /\ cmd_stop(c[Len(tx) + j]) <=> (j = Len(rx))
              /\ Cardinality({j \in 1..Len(c) : cmd_restart(c[j])}) = 1
              /\ Cardinality({j \in 1..Len(c) : cmd_stop(c[j])}) = 1

C5_Witness ==
    /\ pc = "done"
    /\ call_method = "write_read"
    /\ result = Ok
    /\ Len(call_operations[1].buf) = 2
    /\ Len(call_operations[2].buf) = 1
    /\ cmd_restart(Cmds[3])
    /\ cmd_stop(Cmds[3])

\* C6 as stated: a command carries the restart flag only if it is the first
\* read command of the read phase of write_read or write_iter_read.
C6_RestartOnlyInWriteThenRead ==
    \A j \in 1..Len(Cmds) :
        cmd_restart(Cmds[j])
            => /\ call_method \in {"write_read", "write_iter_read"}
               /\ cmd_is_read(Cmds[j])
               /\ j = Len(call_operations[1].buf) + 1

\* C6 amended: a command carries the restart flag only if it is the first
\* read command of read, or of the read phase of write_read or
\* write_iter_read; no command of write, write_iter, transaction or
\* transaction_iter has it.
C6_RestartOnlyOnFirstReadOfReadPaths ==
    \A j \in 1..Len(Cmds) :
        cmd_restart(Cmds[j])
            => /\ call_method \in {"read", "write_read", "write_iter_read"}
               /\ cmd_is_read(Cmds[j])
               /\ j = IF call_method = "read" THEN 1
                      ELSE Len(call_operations[1].buf) + 1

C6_Witness ==
    /\ pc = "done"
    /\ call_method = "read"
    /\ result = Ok
    /\ Len(Cmds) = 2
    /\ cmd_restart(Cmds[1])
    /\ ~cmd_restart(Cmds[2])

\* C7: in a completed transaction (legal address, at least one command on
\* the bus) the peripheral issues a repeated START at the boundary between
\* two adjacent operations exactly when they differ in direction, and no
\* STOP lies between two adjacent operations.
C7_RepeatedStartIffDirectionChanges ==
    ( /\ call_method \in TransactionMethods
      /\ pc = "done"
      /\ result = Ok
      /\ ~AddressInvalid
      /\ Cmds # <<>> )
        => \A n \in 1..(Len(call_operations) - 1) :
              LET j == BytesUpTo(call_operations, n) IN
              /\ (j >= 1 /\ j < Len(Cmds) /\ HwRepeatedStart(Cmds, j + 1))
                    <=> (call_operations[n].dir # call_operations[n + 1].dir)
              /\ (j >= 1 /\ j <= Len(Cmds)) => ~cmd_stop(Cmds[j])

\* C8: once a non-zero abort reason r has been read, no further command is
\* pushed, nothing but the wait for the STOP is left to run, no second abort
\* is read, and the call returns Err(Abort(r)).
AbortReads == {j \in 1..Len(log) : IsAbortRead(log[j])}

C8_FirstAbortShortCircuits ==
    /\ Cardinality(AbortReads) <= 1
    /\ \A j \in AbortReads :
          /\ \A m \in (j + 1)..Len(log) : ~IsPush(log[m])
          /\ pc \in {"write_stop_det", "done"}
          /\ pc = "done" => result = Err("Abort", log[j][3])

C8_Witness ==
    /\ pc = "done"
    /\ call_method = "transaction"
    /\ Len(call_operations) = 2
    /\ call_operations[1].dir = "Write"
    /\ Len(call_operations[1].buf) = 2
    /\ call_operations[2].buf # <<>>
    /\ Len(Cmds) = 1
    /\ result = Err("Abort", 8)

\* C9: when read returns Err(Abort) from the wait for the byte at index i,
\* exactly i + 1 read commands were pushed, i bytes were popped, and buffer
\* slots i..n-1 hold what they held before the call.
C9_ReadAbortKeepsRestOfBuffer ==
    (call_method = "read" /\ pc = "done" /\ result.kind = "Abort")
        => /\ Len(Cmds) = i + 1
           /\ \A j \in 1..Len(Cmds) : cmd_is_read(Cmds[j])
           /\ Len(Pops) = i
           /\ \A j \in (i + 1)..Len(bufs[1]) :
                 bufs[1][j] = call_operations[1].buf[j]

C9_Witness ==
    /\ pc = "done"
    /\ call_method = "read"
    /\ result.kind = "Abort"
    /\ Len(call_operations[1].buf) = 2
    /\ i = 1
    /\ bufs[1] = <<1, 0>>

\* C10: write and write_iter with a valid address, bytes b[0..n-1], n > 0,
\* and no abort return Ok with the target address programmed and the same
\* register accesses: setup, then per byte the push of b[j] (stop on the
\* n-th only), the transmit-empty wait and the abort-reason read, and after
\* the n-th the stop-detected wait and clear. An empty source yields
\* InvalidWriteBufferLength.
WriteByteAccesses(b, stop) ==
    << <<"w", "ic_data_cmd", b + (IF stop THEN 512 ELSE 0)>>,
       <<"r", "ic_raw_intr_stat", 16>>,
       <<"r", "ic_tx_abrt_source", 0>> >>
    \o (IF stop THEN << <<"r", "ic_raw_intr_stat", 512>>,
                        <<"r", "ic_clr_stop_det", 0>> >>
        ELSE <<>>)

RECURSIVE WriteAccesses(_, _)
WriteAccesses(b, n) ==
    IF n = 0 THEN <<>>
    ELSE WriteAccesses(b, n - 1) \o WriteByteAccesses(b[n], n = Len(b))

C10_WriteAndWriteIterAgree ==
    (call_method \in {"write", "write_iter"} /\ pc = "done")
        => LET b == call_operations[1].buf IN
           /\ b = <<>> => result = Err("InvalidWriteBufferLength", 0)
           /\ (b # <<>> /\ ~AddressInvalid /\ result.kind # "Abort")
                 => /\ result = Ok
                    /\ ic_tar = call_address
                    /\ Len(Cmds) = Len(b)
                    /\ \A j \in 1..Len(b) :
                          /\ cmd_dat(Cmds[j]) = b[j]
                          /\ ~cmd_is_read(Cmds[j])
                          /\ cmd_stop(Cmds[j]) <=> (j = Len(b))
                    /\ log = << <<"w", "ic_enable", 0>>,
                                <<"w", "ic_tar", call_address>>,
                                <<"w", "ic_enable", 1>> >>
                             \o WriteAccesses(b, Len(b))

C10_Witness ==
    /\ pc = "done"
    /\ call_method = "write_iter"
    /\ result = Ok
    /\ call_operations[1].buf = <<1, 0>>
    /\ Len(Cmds) = 2

\* C11: write_iter_read called with a non-empty byte source and an empty
\* read buffer behaves as write_read does: it returns
\* InvalidReadBufferLength and makes no register access.
C11_WriteIterReadRejectsEmptyReadBuffer ==
    ( /\ call_method = "write_iter_read"
      /\ ~AddressInvalid
      /\ call_operations[1].buf # <<>>
      /\ call_operations[2].buf = <<>> )
        => /\ log = <<>>
           /\ pc = "done" => result = Err("InvalidReadBufferLength", 0)

----------------------------------------------------------------------------
\* Properties of validate and of new_controller

\* The reserved 7-bit addresses: 0000xxx and 1111xxx.
ReservedAddresses == (0..7) \cup (120..127)

\* C12: for every address and every pair of optional emptiness flags,
\* validate returns InvalidWriteBufferLength if the write flag says empty;
\* otherwise InvalidReadBufferLength if the read flag says empty; otherwise
\* AddressOutOfRange(address) if the address is >= 0x80; otherwise
\* AddressReserved(address) if the address is reserved; otherwise Ok.
C12_ValidatePrecedence ==
    validate_result # Pending =>
        LET address == validate_args[1]
            tx_empty == validate_args[2] = Some(TRUE)
            rx_empty == validate_args[3] = Some(TRUE)
        IN /\ tx_empty
                => validate_result = Err("InvalidWriteBufferLength", 0)
           /\ (~tx_empty /\ rx_empty)
                => validate_result = Err("InvalidReadBufferLength", 0)
           /\ (~tx_empty /\ ~rx_empty /\ address >= 128)
                => validate_result = Err("AddressOutOfRange", address)
           /\ (~tx_empty /\ ~rx_empty /\ address < 128
                         /\ address \in ReservedAddresses)
                => validate_result = Err("AddressReserved", address)
           /\ (~tx_empty /\ ~rx_empty /\ address < 128
                         /\ address \notin ReservedAddresses)
                => validate_result = Ok

\* An empty write buffer, an empty read buffer and an address out of range
\* all at once: the write buffer is reported.
C12_Witness ==
    /\ validate_args = <<200, Some(TRUE), Some(TRUE)>>
    /\ validate_result = Err("InvalidWriteBufferLength", 0)

\* new_controller has returned the controller.
Completed == call_method = "new_controller" /\ pc = "done"

\* C13: whenever new_controller completes, the high and low counts written
\* add up to (system_clock + freq / 2) / freq, both lie in 8..65535, and the
\* data-hold count written is at most the low count minus 2.
C13_DivisorsSumToPeriod ==
    Completed =>
        /\ ic_fs_scl_hcnt + ic_fs_scl_lcnt
             = (cfg_system_clock + cfg_freq \div 2) \div cfg_freq
        /\ ic_fs_scl_hcnt \in 8..65535
        /\ ic_fs_scl_lcnt \in 8..65535
        /\ ic_sda_tx_hold <= ic_fs_scl_lcnt - 2

\* 125 MHz, 400 kHz: period 313 = 126 high + 187 low, hold 38.
C13_Witness ==
    /\ Completed
    /\ cfg_system_clock = 125000000
    /\ cfg_freq = 400000
    /\ ic_fs_scl_hcnt = 126
    /\ ic_fs_scl_lcnt = 187
    /\ ic_sda_tx_hold = 38

\* C14: whenever new_controller completes, the spike-suppression length
\* written is 1 when the low count is under 16 and the low count divided by
\* 16 otherwise, for every low count in 8..65535, nothing cut off.
C14_SpklenIsSixteenthOfLowCount ==
    Completed =>
        ic_fs_spklen = IF ic_fs_scl_lcnt < 16 THEN 1 ELSE ic_fs_scl_lcnt \div 16

\* C15: for every system clock and every bus frequency in 1..=1_000_000
\* handed to new_controller, none of system_clock + freq / 2, period * 3 and
\* system_clock * 3 exceeds 2^32 - 1, and the data-hold count is not 0.
C15_TimingNeverOverflows ==
    (call_method = "new_controller" /\ cfg_freq \in 1..1000000) =>
        /\ ~add_overflows(cfg_system_clock, cfg_freq \div 2)
        /\ ~mul3_overflows(period(cfg_system_clock, cfg_freq))
        /\ ~mul3_overflows(cfg_system_clock)
        /\ sda_tx_hold_count(cfg_system_clock, cfg_freq) # 0

----------------------------------------------------------------------------
\* Properties of the register accesses over a driver's life

\* The registers that configure the block, as opposed to the data FIFO.
ConfigRegisters == {"ic_con", "ic_tx_tl", "ic_rx_tl", "ic_fs_scl_hcnt",
                    "ic_fs_scl_lcnt", "ic_fs_spklen", "ic_sda_hold", "ic_tar"}

IsConfigWrite(e) == e[1] = "w" /\ e[2] \in ConfigRegisters
IsEnableWrite(e) == e[1] = "w" /\ e[2] = "ic_enable"

\* The enable bit as the call's last write to ic_enable before access j left
\* it; -1 when the call has not written ic_enable before access j.
EnableBefore(j) ==
    LET W == {m \in 1..(j - 1) : IsEnableWrite(log[m])} IN
    IF W = {} THEN -1
    ELSE log[CHOOSE m \in W : \A n \in W : n <= m][3]

\* C16: in new_controller and in every transfer, each write to a
\* configuration register (control, FIFO thresholds, high / low counts,
\* spike length, data hold, target address) comes after the call disabled the
\* block and before it enabled it again; each push to the data FIFO comes
\* while the block is enabled; and when new_controller, or a transfer that
\* got as far as setup, has returned, the block is enabled.
C16_ConfigureOnlyWhileDisabled ==
    /\ \A j \in 1..Len(log) :
         /\ IsConfigWrite(log[j]) => EnableBefore(j) = 0
         /\ IsPush(log[j]) => EnableBefore(j) = 1
    /\ (pc = "done" /\ log # <<>>) => ic_enable = 1

\* new_controller has returned: the control, threshold, timing and hold
\* registers were written between its two writes to ic_enable.
C16_Witness ==
    /\ Completed
    /\ cfg_freq = 1000000
    /\ Len(SelectSeq(log, IsConfigWrite)) = 7
    /\ ic_enable = 1

\* The pushes of write_internal: commands with the CMD bit clear.
WritePushes == {j \in 1..Len(log) : IsPush(log[j]) /\ ~cmd_is_read(log[j][3])}

\* The loop of write_internal is still busy with the byte pushed at access j.
InHand(j) ==
    /\ pc \in {"write_tx_empty", "write_abort_reason", "write_stop_det"}
    /\ \A m \in (j + 1)..Len(log) : ~IsPush(log[m])

\* The last access made for the byte pushed at access j: the one before the
\* next push (or before the FIFO-full poll that precedes a read push).
LastAccessFor(j) ==
    LET later == {m \in (j + 1)..Len(log) :
                     IsPush(log[m]) \/ log[m][2] = "ic_status"}
    IN IF later = {} THEN Len(log)
       ELSE (CHOOSE m \in later : \A n \in later : m <= n) - 1

\* C17: once write_internal is done with a byte (it went on to the next
\* byte or returned), then, if it captured an abort reason for the byte or
\* pushed it with the stop flag, its last two accesses for the byte are the
\* poll that saw stop_det asserted and the read of ic_clr_stop_det, in that
\* order and once each; if neither, it made no stop_det poll and no clear.
C17_WriteWaitsForStopAndClears ==
    \A j \in WritePushes :
        ~InHand(j) =>
            LET e == LastAccessFor(j)
                seg == (j + 1)..e
                captured == \E m \in seg : IsAbortRead(log[m])
                polls == {m \in seg : log[m] = <<"r", "ic_raw_intr_stat", 512>>}
                clears == {m \in seg : log[m][2] = "ic_clr_stop_det"}
            IN IF captured \/ cmd_stop(log[j][3])
               THEN polls = {e - 1} /\ clears = {e}
               ELSE polls = {} /\ clears = {}

\* write_read whose first byte was refused: no stop flag, the abort alone
\* made write_internal wait for stop_det and clear it before returning.
C17_Witness ==
    /\ pc = "done"
    /\ call_method = "write_read"
    /\ result = Err("Abort", 1)
    /\ Len(Cmds) = 1
    /\ ~cmd_stop(Cmds[1])
    /\ log[Len(log)] = <<"r", "ic_clr_stop_det", 0>>

IsReasonRead(e) == e[1] = "r" /\ e[2] = "ic_tx_abrt_source"
IsReasonClear(e) == e[1] = "r" /\ e[2] = "ic_clr_tx_abrt"

\* Access j is followed at once by one read of ic_clr_tx_abrt, and not by two.
ClearedOnce(j) ==
    /\ j + 1 <= Len(log)
    /\ IsReasonClear(log[j + 1])
    /\ j + 2 <= Len(log) => ~IsReasonClear(log[j + 2])

----------------------------------------------------------------------------
\* Termination

\* The driver is in a busy-wait and the status it polls is not asserted.
Waiting ==
    \/ pc = "read_push" /\ tx_fifo_full
    \/ pc = "write_tx_empty" /\ tx_fifo # <<>>
    \/ pc = "write_stop_det" /\ ~stop_det
    \/ pc = "read_rxflr" /\ rx_fifo = <<>> /\ ic_tx_abrt_source = 0

InCall == pc \notin {"idle", "done"}

\* C19: every transfer is a spin without a timeout. When the peripheral
\* makes progress, a call with valid arguments returns in the end, and with
\* Ok or Err(Abort); as long as the status a busy-wait polls is not
\* asserted, the driver does nothing else: it does not return and pushes no
\* command.
C19_ReturnsIffHardwareProgresses ==
    /\ (InCall /\ ~ArgsInvalid)
          ~> (pc = "done" /\ result.kind \in {"Ok", "Abort"})
    /\ [][Waiting => UNCHANGED driver]_vars

\* A write that pushed its last byte and spins until the STOP has occurred.
C19_Witness ==
    /\ call_method = "write"
    /\ ~ArgsInvalid
    /\ pc = "write_stop_det"
    /\ ~stop_det
    /\ stop_pending

----------------------------------------------------------------------------
\* The latched stop-detected status across calls

\* C20: when an operation that reached the bus has returned, the STOP it
\* brought about (by its stop flag or by an abort) has occurred and the
\* stop_det it latched has been cleared; so a write that returned Ok has had
\* its own STOP on the bus.
C20_NoStopLeftBehind ==
    /\ (pc = "done" /\ Cmds # <<>>) => (~stop_pending /\ ~stop_det)
    /\ (pc = "done" /\ call_method \in {"write", "write_iter"} /\ result = Ok)
          => ~stop_pending

====
